---- MODULE Spec2Model ----
(***************************************************************************)
(* yabsnap: the snapshot lifecycle operator (snap_operator.py), the run    *)
(* driver (main.py) and the batch filter engine (batch_deleter.py).        *)
(*                                                                         *)
(* Time is an integer count of abstract units; a snapshot's identity is    *)
(* its path dest_prefix + timestamp, so within one configuration a         *)
(* snapshot is named by its snaptime.  All times are POSIX timestamps of   *)
(* the naive local datetimes the code handles.                             *)
(***************************************************************************)
EXTENDS Integers, Sequences, FiniteSets, TLC

VARIABLES
    fs,      \* fs[c]: the snapshots in configuration c's destination directory
    clock,   \* the `now` of the most recent invocation
    budget,  \* invocations (or command runs) still to come
    ev,      \* what the most recent SnapOperator invocation was given and did
    run      \* the command run in progress (main.py), or the idle record

vars == <<fs, clock, budget, ev, run>>

----------------------------------------------------------------------------
(* Bounds of the model. *)

\* The latest instant.
MaxTime == 4
\* Snapshots in the destination directory before a single invocation.
MaxSnaps == 2
\* Snapshots in the destination directory before the first of two invocations.
MaxSeqSnaps == 0
\* The largest quota (keep_user, keep_preinstall).
MaxKeep == 4
\* The last mechanism call of an invocation that may raise PermissionError.
MaxFail == 1

(* Program constants. *)

\* configs.DURATION_BUFFER, the guard buffer of scheduled().
DURATION_BUFFER == 2
\* The target "" of the placeholder candidate (now, "").
EmptyTarget == -1

Times == 0 .. MaxTime
Triggers == {"S", "I", "U"}
NoSnap == "-"

Configs == {1, 2}
\* The configuration the SnapOperator instances of Spec are built for.
OpConfig == 1

Snapshot == [t : Times, trig : Triggers]

\* The values of the retention parameters the invocations are run with.
TriggerIntervals == {3}
MinKeepSecs == {0, 2}
KeepCounts == -1 .. MaxKeep
PreinstallIntervals == {2}

----------------------------------------------------------------------------
(* Generic helpers. *)

Range(seq) == {seq[i] : i \in 1 .. Len(seq)}

\* All orders in which the elements of the finite set S can be enumerated.
Perms(S) ==
    {p \in [1 .. Cardinality(S) -> S] :
        \A i, j \in 1 .. Cardinality(S) : p[i] = p[j] => i = j}

\* Python's array[:stop].
PySliceTo(array, stop) ==
    IF stop >= 0
    THEN SubSeq(array, 1, IF stop < Len(array) THEN stop ELSE Len(array))
    ELSE SubSeq(array, 1, IF Len(array) + stop > 0 THEN Len(array) + stop ELSE 0)

\* x // y for y > 0 and x >= 0.
FloorDiv(x, y) == x \div y

IsChronological(seq) ==
    \A i, j \in 1 .. Len(seq) : i < j => seq[i].t < seq[j].t

\* The snapshot set a directory content function [Times -> Triggers + NoSnap] stands for.
SnapSetOf(f) == {[t |-> u, trig |-> f[u]] : u \in {v \in Times : f[v] # NoSnap}}

\* The destination directories of at most n snapshots.
SnapSets(n) ==
    {SnapSetOf(f) : f \in {g \in [Times -> Triggers \cup {NoSnap}] :
        Cardinality({v \in Times : g[v] # NoSnap}) <= n}}

\* The destination directories a configuration may start with.
InitSnapSets == SnapSets(MaxSnaps)

\* The contents of all destination directories, with at most n snapshots in all.
AllSnapSets(n) ==
    {f \in [{1, 2} -> SnapSets(n)] : Cardinality(f[1]) + Cardinality(f[2]) <= n}

----------------------------------------------------------------------------
(* The mechanism: snap_holder.Snapshot.create_from / delete.  A call either *)
(* succeeds or raises PermissionError; st.failAt names the call that raises *)
(* (0: none).  st is the state of one SnapOperator instance at work.        *)

NewOperator(snaps, failAt) ==
    [snaps |-> snaps, snaps_created |-> FALSE, snaps_deleted |-> FALSE,
     ncalls |-> 0, failAt |-> failAt, raised |-> FALSE, caught |-> FALSE,
     deleted |-> {}, created |-> {}, need_new |-> FALSE, dryrun |-> FALSE]

\* The instance at work under global_flags.FLAGS.dryrun: the mechanism calls return
\* without touching the directory.
NewDryrunOperator(snaps) == [NewOperator(snaps, 0) EXCEPT !.dryrun = TRUE]

MechDelete(st, target) ==
    IF st.dryrun
    THEN [st EXCEPT !.ncalls = @ + 1, !.deleted = @ \cup {target}]
    ELSE IF st.ncalls + 1 = st.failAt
    THEN [st EXCEPT !.ncalls = @ + 1, !.raised = TRUE]
    ELSE [st EXCEPT !.ncalls = @ + 1,
                    !.snaps = {s \in @ : s.t # target},
                    !.deleted = @ \cup {target}]

\* Creating over an existing path leaves the directory entry and rewrites its metadata.
MechCreateFrom(st, when, trigger) ==
    IF st.dryrun
    THEN [st EXCEPT !.ncalls = @ + 1, !.created = @ \cup {when}]
    ELSE IF st.ncalls + 1 = st.failAt
    THEN [st EXCEPT !.ncalls = @ + 1, !.raised = TRUE]
    ELSE [st EXCEPT !.ncalls = @ + 1,
                    !.snaps = {s \in @ : s.t # when} \cup {[t |-> when, trig |-> trigger]},
                    !.created = @ \cup {when}]

----------------------------------------------------------------------------
(* snap_operator.py *)

\* os.listdir returns the entries in arbitrary order.
ListDir(snaps) == Perms(snaps)

\* A directory entry that is no snapshot carries the reason in a field of its own:
\* "file" (not a directory), "prefix" (does not start with dest_prefix) or
\* "unparsable" (snap_holder.Snapshot raises ValueError on its name).
IsSnapshotEntry(x) == "entry" \notin DOMAIN x

\* Mutant of GetOldBackups: the ValueError of an unparsable name not handled, the
\* entry taken for a snapshot.
GetOldBackupsKeepsUnparsable(listing) ==
    SelectSeq(listing, LAMBDA x : IsSnapshotEntry(x) \/ x.entry = "unparsable")

\* _get_old_backups: the entries that parse as snapshots, in listing order.
GetOldBackups(listing) == SelectSeq(listing, IsSnapshotEntry)

\* ch in trigger, for the one-character (or empty) trigger strings.
InTrigger(ch, trigger) == trigger = ch

HasTriggerS(x) == InTrigger("S", x.trig)

\* _all_but_last_k: array[: len(array) - k], k < 0 raises ValueError.
AllButLastK(array, k) == PySliceTo(array, Len(array) - k)

\* Mutant of Candidates: the placeholder put first instead of appended.
CandidatesPlaceholderFirst(snapseq, now) ==
    << <<now, EmptyTarget>> >>
    \o [i \in 1 .. Len(SelectSeq(snapseq, LAMBDA x : x.trig \in {"", "S"})) |->
        <<SelectSeq(snapseq, LAMBDA x : x.trig \in {"", "S"})[i].t,
          SelectSeq(snapseq, LAMBDA x : x.trig \in {"", "S"})[i].t>>]

\* The candidate list of _apply_deletion_rules: (snaptime, target) pairs, placeholder last.
Candidates(snapseq, now) ==
    [i \in 1 .. Len(SelectSeq(snapseq, LAMBDA x : x.trig \in {"", "S"})) |->
        <<SelectSeq(snapseq, LAMBDA x : x.trig \in {"", "S"})[i].t,
          SelectSeq(snapseq, LAMBDA x : x.trig \in {"", "S"})[i].t>>]
    \o << <<now, EmptyTarget>> >>

\* deletion_logic.DeleteManager.get_deletes: what the engine may report for the
\* candidates, any subset of them in any order.
EngineOutputs(candidates) ==
    UNION {Perms(T) : T \in SUBSET Range(candidates)}

\* Mutants of ExceedsMinKeep: the floor forgotten; the operands swapped.
ExceedsMinKeepNoFloor(cfg, now, when) == now - when > 0
ExceedsMinKeepSwapped(cfg, now, when) == when - now > cfg.min_keep_secs

\* elapsed_secs > min_keep_secs: the snapshot is old enough to be deleted.
ExceedsMinKeep(cfg, now, when) == now - when > cfg.min_keep_secs

\* The loop of _apply_deletion_rules over the reported deletions, from position i.
RECURSIVE DeletionLoop(_, _, _, _, _)
DeletionLoop(cfg, now, reported, i, st) ==
    IF i > Len(reported)
    THEN [st EXCEPT !.need_new = TRUE]
    ELSE LET when == reported[i][1]
             target == reported[i][2]
         IN  IF target = EmptyTarget
             THEN [st EXCEPT !.need_new = FALSE]
             ELSE IF ExceedsMinKeep(cfg, now, when)
                  THEN LET d == MechDelete(st, target)
                       IN  IF d.raised
                           THEN d
                           ELSE DeletionLoop(cfg, now, reported, i + 1,
                                             [d EXCEPT !.snaps_deleted = TRUE])
                  ELSE DeletionLoop(cfg, now, reported, i + 1, st)

ApplyDeletionRules(cfg, now, reported, st) ==
    DeletionLoop(cfg, now, reported, 1, st)

\* Mutants of NextTriggerTime: the interval counted from the snapshot instead of
\* the grid; the snapshots of every trigger taken as previous_snaps.
NextTriggerTimeFromAge(cfg, listing) ==
    LET previous_snaps == SelectSeq(GetOldBackups(listing), HasTriggerS)
    IN  IF previous_snaps = <<>>
        THEN <<>>
        ELSE << previous_snaps[Len(previous_snaps)].t + cfg.trigger_interval >>

NextTriggerTimeAnyTrigger(cfg, listing) ==
    LET previous_snaps == GetOldBackups(listing)
    IN  IF previous_snaps = <<>>
        THEN <<>>
        ELSE << (FloorDiv(previous_snaps[Len(previous_snaps)].t, cfg.trigger_interval) + 1)
                * cfg.trigger_interval >>

\* _next_trigger_time: <<>> for None, else <<wait_until>>.
NextTriggerTime(cfg, listing) ==
    LET previous_snaps == SelectSeq(GetOldBackups(listing), HasTriggerS)
    IN  IF previous_snaps = <<>>
        THEN <<>>
        ELSE << (FloorDiv(previous_snaps[Len(previous_snaps)].t, cfg.trigger_interval) + 1)
                * cfg.trigger_interval >>

\* Mutants of GuardSuppresses: the buffer added instead of subtracted; the buffer
\* forgotten.
GuardSuppressesPlusBuffer(now, wait_until) ==
    /\ wait_until # <<>>
    /\ now <= wait_until[1] + DURATION_BUFFER

GuardSuppressesNoBuffer(now, wait_until) ==
    /\ wait_until # <<>>
    /\ now <= wait_until[1]

\* Mutant of GuardSuppresses: the comparison made strict.
GuardSuppressesStrict(now, wait_until) ==
    /\ wait_until # <<>>
    /\ now < wait_until[1] - DURATION_BUFFER

\* The guard of scheduled(): TRUE when the call returns without going further.
GuardSuppresses(now, wait_until) ==
    /\ wait_until # <<>>
    /\ now <= wait_until[1] - DURATION_BUFFER

\* Mutant of ScheduledBody: the result of _apply_deletion_rules ignored.
ScheduledBodyAlwaysCreates(cfg, now, reported, st) ==
    LET a == ApplyDeletionRules(cfg, now, reported, st)
    IN  IF a.raised
        THEN a
        ELSE LET c == MechCreateFrom(a, now, "S")
             IN  IF c.raised THEN c ELSE [c EXCEPT !.snaps_created = TRUE]

\* scheduled(), past the compatibility check and the guard.
ScheduledBody(cfg, now, reported, st) ==
    LET a == ApplyDeletionRules(cfg, now, reported, st)
    IN  IF a.raised
        THEN a
        ELSE IF a.need_new
             THEN LET c == MechCreateFrom(a, now, "S")
                  IN  IF c.raised THEN c ELSE [c EXCEPT !.snaps_created = TRUE]
             ELSE a

----------------------------------------------------------------------------
(* _create_and_maintain_n_backups, create, on_pacman *)

\* The clean-up loop of _create_and_maintain_n_backups, from position i.
RECURSIVE ExpireLoop(_, _, _)
ExpireLoop(expired, i, st) ==
    IF i > Len(expired)
    THEN st
    ELSE LET d == MechDelete(st, expired[i].t)
         IN  IF d.raised
             THEN d
             ELSE ExpireLoop(expired, i + 1, [d EXCEPT !.snaps_deleted = TRUE])

\* Mutant of CreateAndMaintainNBackups: the previous snapshots read after the new
\* one was created.
CreateAndMaintainNBackupsListsAfter(count, trigger, now, listing, st) ==
    LET n_snaps_to_leave == IF count > 0 THEN count - 1 ELSE 0
        c == IF count > 0
             THEN LET m == MechCreateFrom(st, now, trigger)
                  IN  IF m.raised THEN m ELSE [m EXCEPT !.snaps_created = TRUE]
             ELSE st
        kept == SelectSeq(listing, LAMBDA x : x.t # now \/ \A y \in c.snaps : y.t # now)
        after == IF \E y \in c.snaps : y.t = now
                 THEN Append(kept, CHOOSE y \in c.snaps : y.t = now)
                 ELSE kept
        previous_snaps == SelectSeq(GetOldBackups(after), LAMBDA x : x.trig = trigger)
    IN  IF c.raised
        THEN c
        ELSE ExpireLoop(AllButLastK(previous_snaps, n_snaps_to_leave), 1, c)

\* Mutant of CreateAndMaintainNBackups: one snapshot left whatever the quota.
CreateAndMaintainNBackupsLeavesOne(count, trigger, now, listing, st) ==
    LET previous_snaps == SelectSeq(GetOldBackups(listing), LAMBDA x : x.trig = trigger)
        n_snaps_to_leave == IF count > 0 THEN count - 1 ELSE 1
        c == IF count > 0
             THEN LET m == MechCreateFrom(st, now, trigger)
                  IN  IF m.raised THEN m ELSE [m EXCEPT !.snaps_created = TRUE]
             ELSE st
    IN  IF c.raised
        THEN c
        ELSE ExpireLoop(AllButLastK(previous_snaps, n_snaps_to_leave), 1, c)

\* _create_and_maintain_n_backups, past the compatibility check.
\* Mutant of CreateAndMaintainNBackups: previous_snaps not restricted to the trigger.
CreateAndMaintainNBackupsAnyTrigger(count, trigger, now, listing, st) ==
    LET previous_snaps == GetOldBackups(listing)
        n_snaps_to_leave == IF count > 0 THEN count - 1 ELSE 0
        c == IF count > 0
             THEN LET m == MechCreateFrom(st, now, trigger)
                  IN  IF m.raised THEN m ELSE [m EXCEPT !.snaps_created = TRUE]
             ELSE st
    IN  IF c.raised
        THEN c
        ELSE ExpireLoop(AllButLastK(previous_snaps, n_snaps_to_leave), 1, c)

CreateAndMaintainNBackups(count, trigger, now, listing, st) ==
    LET previous_snaps == SelectSeq(GetOldBackups(listing), LAMBDA x : x.trig = trigger)
        n_snaps_to_leave == IF count > 0 THEN count - 1 ELSE 0
        c == IF count > 0
             THEN LET m == MechCreateFrom(st, now, trigger)
                  IN  IF m.raised THEN m ELSE [m EXCEPT !.snaps_created = TRUE]
             ELSE st
    IN  IF c.raised
        THEN c
        ELSE ExpireLoop(AllButLastK(previous_snaps, n_snaps_to_leave), 1, c)

CreateBodyNoCatch(cfg, now, listing, st) ==
    CreateAndMaintainNBackups(cfg.keep_user, "U", now, listing, st)

\* create(): PermissionError is caught and reported.
CreateBody(cfg, now, listing, st) ==
    LET r == CreateAndMaintainNBackups(cfg.keep_user, "U", now, listing, st)
    IN  IF r.raised THEN [r EXCEPT !.raised = FALSE, !.caught = TRUE] ELSE r

\* on_pacman(): the I-tagged snapshot listed last, <<>> for None.
LastSnap(listing) ==
    LET installs == SelectSeq(GetOldBackups(listing), LAMBDA x : x.trig = "I")
    IN  IF installs = <<>> THEN <<>> ELSE <<installs[Len(installs)]>>

\* on_pacman(): TRUE when the call returns because the last install is too recent.
PacmanSkips(cfg, now, last_snap) ==
    /\ last_snap # <<>>
    /\ now - last_snap[1].t < cfg.preinstall_interval

----------------------------------------------------------------------------
(* The record of one invocation. *)

NoEvent ==
    [op |-> "none", c |-> 0, now |-> 0, pre |-> {}, cfg |-> <<>>,
     prev_op |-> "none", prev_now |-> 0, prev_cfg |-> <<>>, prev_created |-> {},
     guard |-> "none", reported |-> <<>>, wait_until |-> <<>>, chrono |-> TRUE,
     snaps_created |-> FALSE, snaps_deleted |-> FALSE, raised |-> FALSE,
     caught |-> FALSE, deleted |-> {}, created |-> {}, ncalls |-> 0,
     candidates |-> <<>>]

Event(op, c, cfg, now, listing, guard, wait_until, reported, st) ==
    [op |-> op, c |-> c, now |-> now, pre |-> fs[c], cfg |-> cfg,
     prev_op |-> ev.op, prev_now |-> clock, prev_cfg |-> ev.cfg,
     prev_created |-> ev.created,
     guard |-> guard, reported |-> reported, wait_until |-> wait_until,
     chrono |-> IsChronological(listing),
     snaps_created |-> st.snaps_created, snaps_deleted |-> st.snaps_deleted,
     raised |-> st.raised, caught |-> st.caught,
     deleted |-> st.deleted, created |-> st.created, ncalls |-> st.ncalls,
     candidates |-> <<>>]

IdleRun == [status |-> "idle"]

\* A configuration file stays as it is from one invocation to the next.
SameConfig(op, cfg) == ev.op = op => cfg = ev.cfg

\* The configurations the operations are run with.
SchedConfigs ==
    [compatible : BOOLEAN, trigger_interval : TriggerIntervals,
     min_keep_secs : MinKeepSecs]
CreateConfigs == [compatible : BOOLEAN, keep_user : KeepCounts]
PacmanConfigs ==
    [compatible : BOOLEAN, keep_preinstall : KeepCounts,
     preinstall_interval : PreinstallIntervals]

----------------------------------------------------------------------------
(* One SnapOperator(config, now) instance at work on configuration c;      *)
(* listing is the order in which the destination directory is listed.      *)

\* scheduled() of the instance st0: the event it leaves and the directory it ends with.
ScheduledOf(c, cfg, now, listing, reported, st0) ==
    LET wait_until == NextTriggerTime(cfg, listing)
    IN  IF ~cfg.compatible
        THEN Event("scheduled", c, cfg, now, listing, "incompatible", <<>>, <<>>, st0)
                @@ [snaps |-> st0.snaps]
        ELSE IF GuardSuppresses(now, wait_until)
        THEN Event("scheduled", c, cfg, now, listing, "wait", wait_until, <<>>, st0)
                @@ [snaps |-> st0.snaps]
        ELSE LET previous_snaps == SelectSeq(GetOldBackups(listing), HasTriggerS)
                 st == ScheduledBody(cfg, now, reported, st0)
             IN  [Event("scheduled", c, cfg, now, listing, "passed", wait_until, reported, st)
                    EXCEPT !.candidates = Candidates(previous_snaps, now)]
                    @@ [snaps |-> st.snaps]

Scheduled(c, cfg, now, listing, reported, failAt) ==
    ScheduledOf(c, cfg, now, listing, reported, NewOperator(fs[c], failAt))

\* The reports the engine may give scheduled() (none is asked for when it returns early).
ScheduledReports(c, cfg, now, listing) ==
    IF ~cfg.compatible \/ GuardSuppresses(now, NextTriggerTime(cfg, listing))
    THEN {<<>>}
    ELSE EngineOutputs(Candidates(SelectSeq(GetOldBackups(listing), HasTriggerS), now))

\* Mutant of Create: the compatibility check of _create_and_maintain_n_backups left out.
CreateAnyVolume(c, cfg, now, listing, failAt) ==
    LET st0 == NewOperator(fs[c], failAt)
        st == CreateBody(cfg, now, listing, st0)
    IN  Event("create", c, cfg, now, listing, "passed", <<>>, <<>>, st)
           @@ [snaps |-> st.snaps]

\* create(comment) of the instance st0
CreateOf(c, cfg, now, listing, st0) ==
    IF ~cfg.compatible
    THEN Event("create", c, cfg, now, listing, "incompatible", <<>>, <<>>, st0)
            @@ [snaps |-> st0.snaps]
    ELSE LET st == CreateBody(cfg, now, listing, st0)
         IN  Event("create", c, cfg, now, listing, "passed", <<>>, <<>>, st)
                @@ [snaps |-> st.snaps]

Create(c, cfg, now, listing, failAt) ==
    CreateOf(c, cfg, now, listing, NewOperator(fs[c], failAt))

\* on_pacman() of the instance st0
OnPacmanOf(c, cfg, now, listing, st0) ==
    IF PacmanSkips(cfg, now, LastSnap(listing))
    THEN Event("on_pacman", c, cfg, now, listing, "wait", <<>>, <<>>, st0)
            @@ [snaps |-> st0.snaps]
    ELSE IF ~cfg.compatible
    THEN Event("on_pacman", c, cfg, now, listing, "incompatible", <<>>, <<>>, st0)
            @@ [snaps |-> st0.snaps]
    ELSE LET st == CreateAndMaintainNBackups(cfg.keep_preinstall, "I", now, listing, st0)
         IN  Event("on_pacman", c, cfg, now, listing, "passed", <<>>, <<>>, st)
                @@ [snaps |-> st.snaps]

OnPacman(c, cfg, now, listing, failAt) ==
    OnPacmanOf(c, cfg, now, listing, NewOperator(fs[c], failAt))

\* The event without the resulting directory content.
EventOf(r) == [k \in DOMAIN r \ {"snaps"} |-> r[k]]

----------------------------------------------------------------------------
(* Spec: one SnapOperator instance at work on one configuration, from any  *)
(* directory content.  SpecSeq: successive instances.                      *)

Init ==
    /\ fs \in {f \in [Configs -> InitSnapSets] : \A c \in Configs \ {OpConfig} : f[c] = {}}
    /\ clock = 0
    /\ budget = 1
    /\ ev = NoEvent
    /\ run = IdleRun

Invoked(c, now, r) ==
    /\ fs' = [fs EXCEPT ![c] = r.snaps]
    /\ ev' = EventOf(r)
    /\ clock' = now
    /\ budget' = budget - 1
    /\ UNCHANGED run

DoScheduled ==
    /\ run.status = "idle"
    /\ budget > 0
    /\ \E cfg \in {k \in SchedConfigs : SameConfig("scheduled", k)}, now \in clock .. MaxTime, failAt \in 0 .. MaxFail :
       \E listing \in ListDir(fs[OpConfig]) :
       \E reported \in ScheduledReports(OpConfig, cfg, now, listing) :
          Invoked(OpConfig, now, Scheduled(OpConfig, cfg, now, listing, reported, failAt))

DoCreate ==
    /\ run.status = "idle"
    /\ budget > 0
    /\ \E cfg \in {k \in CreateConfigs : SameConfig("create", k)}, now \in clock .. MaxTime, failAt \in 0 .. MaxFail :
       \E listing \in ListDir(fs[OpConfig]) :
          Invoked(OpConfig, now, Create(OpConfig, cfg, now, listing, failAt))

DoOnPacman ==
    /\ run.status = "idle"
    /\ budget > 0
    /\ \E cfg \in {k \in PacmanConfigs : SameConfig("on_pacman", k)}, now \in clock .. MaxTime, failAt \in 0 .. MaxFail :
       \E listing \in ListDir(fs[OpConfig]) :
          Invoked(OpConfig, now, OnPacman(OpConfig, cfg, now, listing, failAt))

Next == DoScheduled \/ DoCreate \/ DoOnPacman

Spec == Init /\ [][Next]_vars

\* Two invocations in succession, the second at the time of the first or later.
InitSeq ==
    /\ fs \in {f \in [Configs -> SnapSets(MaxSeqSnaps)] :
                 \A c \in Configs \ {OpConfig} : f[c] = {}}
    /\ clock = 0
    /\ budget = 2
    /\ ev = NoEvent
    /\ run = IdleRun

SpecSeq == InitSeq /\ [][Next]_vars

----------------------------------------------------------------------------
(* main.py: _config_operation, one configuration per step, and _sync. *)

\* Snapshots in all destination directories together before a command run.
MaxRunSnaps == 1

\* The commands of _config_operation that create or delete (list and list-json only read).
Commands == {"internal-cronrun", "internal-preupdate", "create"}
SnapTypes == {"BTRFS", "RSYNC"}
MountPaths == {"/", "/home"}

\* configs.iterate_configs(source = None): every configuration, in a fixed order.
IterateConfigs == <<1, 2>>

\* The configurations a command run finds.
RunConfigs ==
    [compatible : {TRUE}, trigger_interval : TriggerIntervals, min_keep_secs : {0},
     keep_user : {1}, keep_preinstall : {1}, preinstall_interval : PreinstallIntervals]

\* What a configuration says of its volume: the backend and the mount path.
Volumes == [snap_type : SnapTypes, mount_path : MountPaths]

\* sorted(paths_to_sync.items()): the snapshot types in their sort order.
SortedSnapTypes == <<"BTRFS", "RSYNC">>

\* The mount paths _sync collects under snapshot type ty.
PathsToSync(configs_to_sync, ty) ==
    {configs_to_sync[i].mount_path :
       i \in {j \in 1 .. Len(configs_to_sync) : configs_to_sync[j].snap_type = ty}}

SyncPerConfig(configs_to_sync) ==
    [i \in 1 .. Len(configs_to_sync) |->
       [snap_type |-> configs_to_sync[i].snap_type,
        paths |-> {configs_to_sync[i].mount_path}]]

\* _sync: the sync_paths calls in the order made, one per snapshot type, each with
\* the set of the mount paths of that type.
Sync(configs_to_sync) ==
    LET present == SelectSeq(SortedSnapTypes,
                             LAMBDA ty : PathsToSync(configs_to_sync, ty) # {})
    IN  [k \in 1 .. Len(present) |->
           [snap_type |-> present[k], paths |-> PathsToSync(configs_to_sync, present[k])]]

\* _config_operation up to its loop.
StartRun ==
    /\ run.status = "idle"
    /\ budget > 0
    /\ \E command \in Commands, now \in clock .. MaxTime :
          /\ run' = [status |-> "running", command |-> command, now |-> now,
                     todo |-> IterateConfigs, invoked |-> <<>>, to_sync |-> <<>>,
                     hooks |-> {}, synced |-> <<>>, sync |-> FALSE, failed |-> {},
                     deleted_in |-> {}]
          /\ clock' = now
    /\ budget' = budget - 1
    /\ UNCHANGED <<fs, ev>>

\* Mutant of AfterOperation: the post-hooks called whatever the flags say.
AfterOperationAlwaysHooks(c, vol, r) ==
    LET seen == [run EXCEPT !.invoked = Append(@, c),
                            !.failed = IF r.raised \/ r.caught THEN @ \cup {c} ELSE @,
                            !.deleted_in = IF r.deleted # {}
                                           THEN @ \cup {[c |-> c, snap_type |-> vol.snap_type,
                                                         mount_path |-> vol.mount_path]}
                                           ELSE @]
    IN  IF r.raised
        THEN [seen EXCEPT !.status = "crashed"]
        ELSE [seen EXCEPT
                !.todo = Tail(@),
                !.to_sync = IF r.snaps_deleted /\ vol.snap_type = "BTRFS"
                            THEN Append(@, [c |-> c, snap_type |-> vol.snap_type,
                                            mount_path |-> vol.mount_path])
                            ELSE @,
                !.hooks = @ \cup {c}]

\* The rest of the loop body once the operation of configuration c has ended with r.
\* A PermissionError that leaves the operation leaves _config_operation too.
AfterOperation(c, vol, r) ==
    LET seen == [run EXCEPT !.invoked = Append(@, c),
                            !.failed = IF r.raised \/ r.caught THEN @ \cup {c} ELSE @,
                            !.deleted_in = IF r.deleted # {}
                                           THEN @ \cup {[c |-> c, snap_type |-> vol.snap_type,
                                                         mount_path |-> vol.mount_path]}
                                           ELSE @]
    IN  IF r.raised
        THEN [seen EXCEPT !.status = "crashed"]
        ELSE [seen EXCEPT
                !.todo = Tail(@),
                !.to_sync = IF r.snaps_deleted /\ vol.snap_type = "BTRFS"
                            THEN Append(@, [c |-> c, snap_type |-> vol.snap_type,
                                            mount_path |-> vol.mount_path])
                            ELSE @,
                !.hooks = IF r.snaps_created \/ r.snaps_deleted THEN @ \cup {c} ELSE @]

Operated(c, vol, r) ==
    /\ fs' = [fs EXCEPT ![c] = r.snaps]
    /\ ev' = EventOf(r)
    /\ run' = AfterOperation(c, vol, r)
    /\ UNCHANGED <<clock, budget>>

\* command == "internal-cronrun": snapper.scheduled()
StepScheduled ==
    /\ run.status = "running"
    /\ run.command = "internal-cronrun"
    /\ run.todo # <<>>
    /\ LET c == Head(run.todo)
       IN  \E cfg \in RunConfigs, vol \in Volumes, failAt \in 0 .. MaxFail :
           \E listing \in ListDir(fs[c]) :
           \E reported \in ScheduledReports(c, cfg, run.now, listing) :
              Operated(c, vol, Scheduled(c, cfg, run.now, listing, reported, failAt))

\* command == "internal-preupdate": snapper.on_pacman()
StepOnPacman ==
    /\ run.status = "running"
    /\ run.command = "internal-preupdate"
    /\ run.todo # <<>>
    /\ LET c == Head(run.todo)
       IN  \E cfg \in RunConfigs, vol \in Volumes, failAt \in 0 .. MaxFail :
           \E listing \in ListDir(fs[c]) :
              Operated(c, vol, OnPacman(c, cfg, run.now, listing, failAt))

\* command == "create": snapper.create(comment)
StepCreate ==
    /\ run.status = "running"
    /\ run.command = "create"
    /\ run.todo # <<>>
    /\ LET c == Head(run.todo)
       IN  \E cfg \in RunConfigs, vol \in Volumes, failAt \in 0 .. MaxFail :
           \E listing \in ListDir(fs[c]) :
              Operated(c, vol, Create(c, cfg, run.now, listing, failAt))

\* The end of _config_operation: if sync: _sync(to_sync).
FinishRun ==
    /\ run.status = "running"
    /\ run.todo = <<>>
    /\ \E sync \in BOOLEAN :
          run' = [run EXCEPT !.status = "done", !.sync = sync,
                             !.synced = IF sync THEN Sync(run.to_sync) ELSE <<>>]
    /\ UNCHANGED <<fs, ev, clock, budget>>

InitRun ==
    /\ fs \in AllSnapSets(MaxRunSnaps)
    /\ clock = 0
    /\ budget = 1
    /\ ev = NoEvent
    /\ run = IdleRun

NextRun == StartRun \/ StepScheduled \/ StepOnPacman \/ StepCreate \/ FinishRun

SpecRun == InitRun /\ [][NextRun]_vars

\* Snapshots in all destination directories together before a command run that
\* may delete in two configurations.
MaxSyncSnaps == 2

InitSync ==
    /\ fs \in AllSnapSets(MaxSyncSnaps)
    /\ clock = 0
    /\ budget = 1
    /\ ev = NoEvent
    /\ run = IdleRun

SpecSync == InitSync /\ [][NextRun]_vars

----------------------------------------------------------------------------
(* batch_deleter.py: the filters and their composition. *)

\* Snapshots in all destination directories together when the filters are applied.
MaxFilterSnaps == 1

DatetimeMin == -1
DatetimeMax == MaxTime + 1

\* A timestamp option is "" or the text of an instant; strptime reads the text back.
TimeStrings == {ToString(t) : t \in Times}
Strptime(date_string) == CHOOSE t \in Times : ToString(t) = date_string

IndicatorStrings == {"", "S", "I", "U", "i"}
Upper(indicator) ==
    IF indicator = "i" THEN "I" ELSE indicator

IndicatorFilter(indicator) ==
    [kind |-> "indicator", available |-> indicator # "", indicator |-> Upper(indicator)]

TimeScopeFilter(start_date_string, end_date_string) ==
    [kind |-> "timescope",
     available |-> (start_date_string # "" /\ end_date_string # ""),
     start_datetime |-> IF start_date_string # "" THEN Strptime(start_date_string)
                        ELSE DatetimeMin,
     end_datetime |-> IF end_date_string # "" THEN Strptime(end_date_string)
                      ELSE DatetimeMax]

\* _filter of either class.
FilterAccepts(f, snap) ==
    IF f.kind = "indicator"
    THEN snap.trig = f.indicator
    ELSE f.start_datetime <= snap.t /\ snap.t < f.end_datetime

\* __call__ of either class.
CallFilter(f, snap) ==
    IF ~f.available THEN FALSE ELSE FilterAccepts(f, snap)

\* _filters: the classes by option name.
RegisteredNames == {"indicator", "start", "end"}

\* _filters[arg_name](arg_value): the value is the constructor's first argument.
ConstructFilter(arg_name, arg_value) ==
    IF arg_name = "indicator"
    THEN IndicatorFilter(arg_value)
    ELSE TimeScopeFilter(arg_value, "")

GetFilters(args) ==
    LET known == SelectSeq(args, LAMBDA a : a.name \in RegisteredNames)
    IN  [i \in 1 .. Len(known) |-> ConstructFilter(known[i].name, known[i].value)]

\* The builtin filter(func, snaps): an iterator object, not yet consumed.
FilterObject(func, snaps) == [func |-> func, iterable |-> snaps]

\* sorted(..., key = snaptime)
SortedBySnaptime(S) ==
    CHOOSE q \in Perms(S) : IsChronological(q)

\* Mutant of ApplySnapshotFilters: the snapshots that every filter accepts.
ApplySnapshotFiltersConjunction(config_snaps_mapping, filters) ==
    [config \in DOMAIN config_snaps_mapping |->
        LET snaps == config_snaps_mapping[config]
        IN  SortedBySnaptime({x \in Range(snaps) :
                                \A i \in 1 .. Len(filters) : CallFilter(filters[i], x)})]

\* apply_snapshot_filters: intersection_update receives one iterable, the generator
\* of the filter objects, and keeps the members of the set that occur in it.
ApplySnapshotFilters(config_snaps_mapping, filters) ==
    [config \in DOMAIN config_snaps_mapping |->
        LET snaps == config_snaps_mapping[config]
            others == {FilterObject(filters[i], snaps) : i \in 1 .. Len(filters)}
        IN  SortedBySnaptime({x \in Range(snaps) : x \in others})]

\* config_snapshots_mapping: each configuration with its directory listing.
ConfigSnapshotsMappings(f) ==
    {m \in [Configs -> UNION {ListDir(f[c]) : c \in Configs}] :
        \A c \in Configs : m[c] \in ListDir(f[c])}

FilterEvent(op, args, mapping, filters) ==
    [op |-> op, args |-> args, mapping |-> mapping, filters |-> filters,
     result |-> ApplySnapshotFilters(mapping, filters)]

OptionIndicators == IndicatorStrings
OptionTimes == {""} \cup TimeStrings

\* The filters a caller builds itself.
DirectFilters ==
    {<<>>}
    \cup {<<IndicatorFilter(i)>> : i \in OptionIndicators}
    \cup {<<TimeScopeFilter(a, b)>> : a \in OptionTimes, b \in OptionTimes}
    \cup {<<IndicatorFilter(i), TimeScopeFilter(a, b)>> :
            i \in OptionIndicators, a \in OptionTimes, b \in OptionTimes}

\* The option dictionary of batch-delete.
FilterArgs ==
    {<<[name |-> "indicator", value |-> i], [name |-> "start", value |-> a],
       [name |-> "end", value |-> b], [name |-> "sync", value |-> ""]>> :
        i \in OptionIndicators, a \in OptionTimes, b \in OptionTimes}

DoApplySnapshotFilters ==
    /\ run.status = "idle"
    /\ budget > 0
    /\ \E mapping \in ConfigSnapshotsMappings(fs), filters \in DirectFilters :
          ev' = FilterEvent("apply_snapshot_filters", <<>>, mapping, filters)
    /\ budget' = budget - 1
    /\ UNCHANGED <<fs, clock, run>>

DoGetFilters ==
    /\ run.status = "idle"
    /\ budget > 0
    /\ \E mapping \in ConfigSnapshotsMappings(fs), args \in FilterArgs :
          ev' = FilterEvent("get_filters", args, mapping, GetFilters(args))
    /\ budget' = budget - 1
    /\ UNCHANGED <<fs, clock, run>>

\* The option dictionary with the two time options only.
TimeArgs(start, end) ==
    <<[name |-> "start", value |-> start], [name |-> "end", value |-> end]>>

\* A time scope filter, built by its constructor or by get_filters from the options
\* start and end, is called on a snapshot: filter(snap) for each filter built.
DoCallFilters ==
    /\ run.status = "idle"
    /\ budget > 0
    /\ \E start \in OptionTimes, end \in OptionTimes, built \in {"direct", "get_filters"},
          snap \in UNION {fs[c] : c \in Configs} :
          LET filters == IF built = "direct"
                         THEN <<TimeScopeFilter(start, end)>>
                         ELSE GetFilters(TimeArgs(start, end))
          IN  ev' = [op |-> "call_filters", built |-> built, start |-> start, end |-> end,
                     snap |-> snap, filters |-> filters,
                     accepted |-> [i \in 1 .. Len(filters) |-> CallFilter(filters[i], snap)]]
    /\ budget' = budget - 1
    /\ UNCHANGED <<fs, clock, run>>

InitFilter ==
    /\ fs \in AllSnapSets(MaxFilterSnaps)
    /\ clock = 0
    /\ budget = 1
    /\ ev = NoEvent
    /\ run = IdleRun

NextFilter == DoApplySnapshotFilters \/ DoGetFilters \/ DoCallFilters

SpecFilter == InitFilter /\ [][NextFilter]_vars

----------------------------------------------------------------------------
(* main.py: _batch_delete_snaps. *)

\* Snapshots in all destination directories together before a batch deletion.
MaxBatchSnaps == 2

Answers == {"y", "Y", "yes", "Yes", "YES", "n", ""}

\* snap_operator.find_multi_targets: for each configuration with a match, the
\* snapshots selected; any selection, since the criteria only narrow it.
FindMultiTargets(f) ==
    UNION {{m \in [D -> SUBSET UNION {f[c] : c \in D}] :
              \A c \in D : m[c] # {} /\ m[c] \subseteq f[c]} : D \in SUBSET Configs}

\* confirm_deletion_snapshots: the answer typed at the prompt.
ConfirmDeletionSnapshots(confirm) ==
    confirm \in {"y", "Y", "yes", "Yes", "YES"}

\* The delete calls of one configuration, then of the next.
RECURSIVE TargetCalls(_, _)
TargetCalls(targets, names) ==
    IF names = <<>>
    THEN <<>>
    ELSE LET config_name == Head(names)
             snaps == SortedBySnaptime(targets[config_name])
         IN  [i \in 1 .. Len(snaps) |-> [c |-> config_name, snap |-> snaps[i]]]
             \o TargetCalls(targets, Tail(names))

TargetNames(targets) ==
    SelectSeq(IterateConfigs, LAMBDA c : c \in DOMAIN targets)

BatchDeleteCallsUnconfirmed(confirm_deletion, targets) ==
    TargetCalls(targets, TargetNames(targets))

\* if confirm_deletion is True: ... snap.delete()
BatchDeleteCalls(confirm_deletion, targets) ==
    IF confirm_deletion THEN TargetCalls(targets, TargetNames(targets)) ELSE <<>>

\* The configurations appended to to_sync once all delete calls have returned.
BatchToSync(confirm_deletion, targets, conf) ==
    IF confirm_deletion
    THEN LET names == SelectSeq(TargetNames(targets),
                                LAMBDA c : conf[c].snap_type = "BTRFS")
         IN  [i \in 1 .. Len(names) |->
                [c |-> names[i], snap_type |-> conf[names[i]].snap_type,
                 mount_path |-> conf[names[i]].mount_path]]
    ELSE <<>>

BatchRun(status, pre, targets) ==
    [status |-> status, command |-> "batch-delete", pre |-> pre, targets |-> targets,
     not_found |-> FALSE, answer |-> "", confirm_deletion |-> FALSE, calls |-> <<>>,
     to_sync |-> <<>>, sync |-> FALSE, synced |-> <<>>]

\* _batch_delete_snaps up to the prompt.
BatchStart ==
    /\ run.status = "idle"
    /\ budget > 0
    /\ \E targets \in FindMultiTargets(fs) :
          run' = IF DOMAIN targets = {}
                 THEN [BatchRun("done", fs, targets) EXCEPT !.not_found = TRUE]
                 ELSE BatchRun("confirming", fs, targets)
    /\ budget' = budget - 1
    /\ UNCHANGED <<fs, clock, ev>>

\* _batch_delete_snaps from the answer to the prompt on. The delete call numbered
\* failAt raises, and the exception leaves the function.
BatchConfirm ==
    /\ run.status = "confirming"
    /\ \E answer \in Answers, conf \in [DOMAIN run.targets -> Volumes],
          sync \in BOOLEAN, failAt \in 0 .. MaxFail :
          LET confirm_deletion == ConfirmDeletionSnapshots(answer)
              calls == BatchDeleteCalls(confirm_deletion, run.targets)
              raised == failAt \in 1 .. Len(calls)
              made == IF raised THEN SubSeq(calls, 1, failAt) ELSE calls
              returned == IF raised THEN SubSeq(calls, 1, failAt - 1) ELSE calls
              to_sync == BatchToSync(confirm_deletion, run.targets, conf)
          IN  /\ fs' = [c \in Configs |->
                          fs[c] \ {returned[i].snap :
                                     i \in {j \in 1 .. Len(returned) : returned[j].c = c}}]
              /\ run' = IF raised
                        THEN [run EXCEPT !.status = "crashed", !.answer = answer,
                                         !.confirm_deletion = confirm_deletion,
                                         !.calls = made]
                        ELSE [run EXCEPT !.status = "done", !.answer = answer,
                                         !.confirm_deletion = confirm_deletion,
                                         !.calls = made, !.to_sync = to_sync,
                                         !.sync = sync,
                                         !.synced = IF sync THEN Sync(to_sync) ELSE <<>>]
    /\ UNCHANGED <<clock, budget, ev>>

InitBatch ==
    /\ fs \in AllSnapSets(MaxBatchSnaps)
    /\ clock = 0
    /\ budget = 1
    /\ ev = NoEvent
    /\ run = IdleRun

NextBatch == BatchStart \/ BatchConfirm

SpecBatch == InitBatch /\ [][NextBatch]_vars

----------------------------------------------------------------------------
(* Vocabulary of the properties. *)

Tagged(snaps, trigger) == {s \in snaps : s.trig = trigger}

\* The n newest snapshots of a set.
NewestN(snaps, n) == {s \in snaps : Cardinality({u \in snaps : u.t > s.t}) < n}

Placeholder(now) == <<now, EmptyTarget>>

PlaceholderReported == Placeholder(ev.now) \in Range(ev.reported)

\* The positions of the report the loop of _apply_deletion_rules reaches when no call raises.
BeforePlaceholder(i) ==
    \A j \in 1 .. i : ev.reported[j] # Placeholder(ev.now)

ScheduledPassed == ev.op = "scheduled" /\ ev.guard = "passed"

StillListed(c, t) == \E u \in fs[c] : u.t = t

OpTrigger == IF ev.op = "create" THEN "U" ELSE "I"

OpCount == IF ev.op = "create" THEN ev.cfg.keep_user ELSE ev.cfg.keep_preinstall

----------------------------------------------------------------------------
(* Properties of one invocation (Spec). *)

\* C1: scheduled() never deletes a snapshot whose age now - snaptime is below
\* min_keep_secs, whatever the engine reports: the snapshot is still listed after
\* the call.
C1_MinKeepFloor ==
    ev.op = "scheduled" =>
        \A s \in ev.pre :
            ev.now - s.t < ev.cfg.min_keep_secs =>
                s.t \notin ev.deleted /\ StillListed(ev.c, s.t)

\* C1 witness: the engine reported a snapshot younger than min_keep_secs ahead of
\* the placeholder, the call deleted another snapshot and left the young one.
C1_Witness ==
    /\ ScheduledPassed
    /\ ev.snaps_deleted
    /\ \E i \in 1 .. Len(ev.reported) :
          /\ BeforePlaceholder(i)
          /\ ev.now - ev.reported[i][1] < ev.cfg.min_keep_secs
          /\ StillListed(ev.c, ev.reported[i][2])

\* C2 (as claimed): after _create_and_maintain_n_backups(count = N > 0, trigger = T)
\* on a compatible volume, at most N T-tagged snapshots remain and they are exactly
\* the newest N of the pre-existing ones and the one just created.  Stated for
\* calls that return normally and whose prior snapshots are all older than now.
C2_TrimKeepsNewestN ==
    ( /\ ev.op \in {"create", "on_pacman"}
      /\ ev.guard = "passed"
      /\ ~ev.raised /\ ~ev.caught
      /\ OpCount > 0
      /\ \A s \in ev.pre : s.t < ev.now ) =>
        LET after == Tagged(fs[ev.c], OpTrigger)
            before == Tagged(ev.pre, OpTrigger) \cup {[t |-> ev.now, trig |-> OpTrigger]}
        IN  /\ Cardinality(after) <= OpCount
            /\ after = NewestN(before, OpCount)

\* C4 (as claimed): with an S-tagged snapshot present, scheduled() makes no call
\* when now < next_trigger - guard_buffer and consults the engine in every other
\* case, now = next_trigger - guard_buffer included.
C4_GuardStrictlyEarlier ==
    ( /\ ev.op = "scheduled"
      /\ ev.cfg.compatible
      /\ Tagged(ev.pre, "S") # {} ) =>
        /\ ev.wait_until # <<>>
        /\ IF ev.now < ev.wait_until[1] - DURATION_BUFFER
           THEN ev.guard = "wait" /\ ev.ncalls = 0
           ELSE ev.guard = "passed"

\* C4 (amended): with an S-tagged snapshot present, scheduled() makes no create and
\* no delete call when now <= next_trigger - guard_buffer, and consults the engine
\* in every other case.
C4_GuardNotLater ==
    ( /\ ev.op = "scheduled"
      /\ ev.cfg.compatible
      /\ Tagged(ev.pre, "S") # {} ) =>
        /\ ev.wait_until # <<>>
        /\ IF ev.now <= ev.wait_until[1] - DURATION_BUFFER
           THEN /\ ev.guard = "wait"
                /\ ev.ncalls = 0 /\ ev.deleted = {} /\ ev.created = {}
                /\ fs[ev.c] = ev.pre
           ELSE ev.guard = "passed"

\* C4 witness: scheduled() run at exactly next_trigger - guard_buffer returned
\* without a call.
C4_Witness ==
    /\ ev.op = "scheduled"
    /\ ev.wait_until # <<>>
    /\ ev.now = ev.wait_until[1] - DURATION_BUFFER
    /\ ev.guard = "wait"
    /\ fs[ev.c] = ev.pre

\* C6: past the guard, scheduled() creates the S-tagged snapshot named by now
\* exactly when the placeholder is not among the reported deletions (no call
\* raising); when it is reported nothing is created and snaps_created stays false.
C6_CreateIffPlaceholderKept ==
    ScheduledPassed =>
        /\ PlaceholderReported => ev.created = {} /\ ~ev.snaps_created
        /\ (~PlaceholderReported /\ ~ev.raised) =>
              /\ ev.created = {ev.now}
              /\ ev.snaps_created
              /\ [t |-> ev.now, trig |-> "S"] \in fs[ev.c]

\* C6 witness: the placeholder was reported after a deletion, and nothing was created.
C6_Witness ==
    /\ ScheduledPassed
    /\ PlaceholderReported
    /\ ev.snaps_deleted
    /\ ev.created = {}
    /\ ~StillListed(ev.c, ev.now)

----------------------------------------------------------------------------
(* Properties of two invocations in succession (SpecSeq). *)

\* scheduled() has been invoked twice in succession on the same configuration, the
\* second time within guard_buffer of the first.
ScheduledTwiceInWindow ==
    /\ ev.op = "scheduled"
    /\ ev.prev_op = "scheduled"
    /\ ev.cfg = ev.prev_cfg
    /\ ev.prev_now <= ev.now
    /\ ev.now < ev.prev_now + DURATION_BUFFER

C8_CreateFailureContained ==
    (run.status # "idle" /\ run.command = "create") =>
        /\ run.status # "crashed"
        /\ run.invoked \o run.todo = IterateConfigs
        /\ (run.status = "done" => run.invoked = IterateConfigs)
        /\ (ev.op = "create" /\ ev.caught /\ ev.ncalls = 1) =>
              /\ ev.deleted = {}
              /\ fs[ev.c] = ev.pre
              /\ ~ev.snaps_created
              /\ ~ev.snaps_deleted

\* C8 witness: the creation for the first configuration failed while it held a
\* user snapshot, which is still there, and the second configuration was processed
\* and got its snapshot.
C8_Witness ==
    /\ run.status = "done"
    /\ run.command = "create"
    /\ 1 \in run.failed
    /\ run.invoked = IterateConfigs
    /\ \E s \in fs[1] : s.trig = "U" /\ s.t < run.now
    /\ ev.c = 2
    /\ ev.snaps_created

\* C9: in an internal-cronrun or internal-preupdate run a PermissionError of a
\* create or delete call for one configuration is recovered at that configuration:
\* the run never ends on the exception, and every configuration has been operated
\* on when the run is over.
C9_FailureRecoveredPerConfig ==
    (run.status # "idle" /\ run.command \in {"internal-cronrun", "internal-preupdate"}) =>
        /\ run.status # "crashed"
        /\ run.invoked \o run.todo = IterateConfigs

\* C5: apply_snapshot_filters with an indicator filter for I and a time-scope
\* filter [t0, t1) returns for each configuration exactly its I-tagged snapshots
\* with t0 <= snaptime < t1, in ascending order of snaptime.
C5_IndicatorAndScopeSelect ==
    (/\ ev.op = "apply_snapshot_filters"
     /\ Len(ev.filters) = 2
     /\ ev.filters[1] = IndicatorFilter("I")
     /\ ev.filters[2].available) =>
        \A c \in Configs :
            /\ Range(ev.result[c]) =
                 {x \in Range(ev.mapping[c]) :
                    /\ x.trig = "I"
                    /\ ev.filters[2].start_datetime <= x.t
                    /\ x.t < ev.filters[2].end_datetime}
            /\ IsChronological(ev.result[c])

----------------------------------------------------------------------------
(* main.py: the sync_paths calls of a _config_operation run. *)

ConfigOperationRun == run.status # "idle" /\ run.command \in Commands

\* The (snapshot type, mount path) groups of the BTRFS configurations in which
\* a delete call returned during the run.
DeletedGroups ==
    {<<d.snap_type, d.mount_path>> : d \in {e \in run.deleted_in : e.snap_type = "BTRFS"}}

\* The groups the sync_paths call numbered k covers.
SyncedGroups(k) == {<<run.synced[k].snap_type, p>> : p \in run.synced[k].paths}

\* C11: in a _config_operation run sync_paths is called only once the operation of
\* the last configuration has returned, only when the sync flag is set, only for
\* (backend type, mount path) groups of BTRFS configurations in which a deletion
\* happened, and at most once for each such group.
C11_SyncAfterLastOnlyDeletedBtrfs ==
    ConfigOperationRun =>
        /\ run.synced # <<>> =>
               /\ run.status = "done"
               /\ run.todo = <<>>
               /\ run.invoked = IterateConfigs
               /\ run.sync
        /\ \A k \in 1 .. Len(run.synced) : SyncedGroups(k) \subseteq DeletedGroups
        /\ \A k1, k2 \in 1 .. Len(run.synced) :
               k1 # k2 => SyncedGroups(k1) \cap SyncedGroups(k2) = {}

\* C11 witness: both configurations are BTRFS on one mount path, both deleted, and
\* the run synced.
C11_Witness ==
    /\ ConfigOperationRun
    /\ run.status = "done"
    /\ run.sync
    /\ Cardinality(run.deleted_in) = 2
    /\ Cardinality(DeletedGroups) = 1
    /\ Len(run.synced) = 1

----------------------------------------------------------------------------
(* snap_operator.py: the candidate list handed to the engine. *)

\* The S-tagged snapshots in the directory when the operation began.
ExistingScheduled == {x \in ev.pre : HasTriggerS(x)}

\* C12: the candidate list passed to get_deletes holds exactly the existing S-tagged
\* snapshots in chronological order, oldest first, followed by exactly one
\* placeholder (now, ""), which is last and newest, whatever the listing order and
\* the timestamps.
C12_CandidatesChronological ==
    ScheduledPassed =>
        LET n == Len(ev.candidates)
        IN  /\ n = Cardinality(ExistingScheduled) + 1
            /\ ev.candidates[n] = <<ev.now, EmptyTarget>>
            /\ {ev.candidates[i][2] : i \in 1 .. n - 1} = {x.t : x \in ExistingScheduled}
            /\ \A i \in 1 .. n - 1 : ev.candidates[i][1] = ev.candidates[i][2]
            /\ \A i, j \in 1 .. n - 1 : i < j => ev.candidates[i][1] < ev.candidates[j][1]
            /\ \A i \in 1 .. n - 1 : ev.candidates[i][1] <= ev.now

----------------------------------------------------------------------------
(* snap_operator.py: _next_trigger_time. *)

\* The snaptime of the most recent S-tagged snapshot in the directory.
NewestScheduledTime ==
    CHOOSE t \in {x.t : x \in ExistingScheduled} : \A x \in ExistingScheduled : x.t <= t

\* C13: the next trigger instant is computed from the most recent S-tagged snapshot
\* by snaptime, whatever the listing order: it is the multiple of trigger_interval
\* that is strictly later than that snaptime t and at most t + trigger_interval.
C13_NextTriggerFromNewest ==
    (ev.op = "scheduled" /\ ev.cfg.compatible /\ ExistingScheduled # {}) =>
        /\ ev.wait_until # <<>>
        /\ ev.wait_until[1] % ev.cfg.trigger_interval = 0
        /\ ev.wait_until[1] > NewestScheduledTime
        /\ ev.wait_until[1] <= NewestScheduledTime + ev.cfg.trigger_interval

----------------------------------------------------------------------------
(* snap_operator.py: scheduled() within and past the window. *)

\* The first multiple of interval after t.
GridAfter(t, interval) == CHOOSE w \in t + 1 .. t + interval : w % interval = 0

\* The age of the most recent S-tagged snapshot at the time of the call.
NewestScheduledAge == ev.now - NewestScheduledTime

\* scheduled() is called with exactly one S-tagged snapshot in the directory,
\* younger than trigger_interval by the guard buffer or more (10 hours of 12).
OneScheduledWithinWindow ==
    /\ ev.op = "scheduled"
    /\ ev.cfg.compatible
    /\ Cardinality(ExistingScheduled) = 1
    /\ NewestScheduledAge >= 1
    /\ NewestScheduledAge + DURATION_BUFFER <= ev.cfg.trigger_interval

\* C14, as claimed: with exactly one S-tagged snapshot younger than trigger_interval
\* (10 hours old, interval 12 hours) scheduled() performs no create and no delete,
\* wherever the snapshot's timestamp lies relative to the grid.
C14_WithinWindowNoCall ==
    OneScheduledWithinWindow => ev.ncalls = 0 /\ fs[ev.c] = ev.pre

\* C14, amended: in that situation scheduled() performs no create and no delete when
\* now is not later than the grid point after the snapshot minus the guard buffer;
\* when now is later, the call passes the guard and the engine is consulted.
C14_WithinWindowNoCallUpToGrid ==
    OneScheduledWithinWindow =>
        LET next_trigger == GridAfter(NewestScheduledTime, ev.cfg.trigger_interval)
        IN  IF ev.now <= next_trigger - DURATION_BUFFER
            THEN ev.guard = "wait" /\ ev.ncalls = 0 /\ fs[ev.c] = ev.pre
            ELSE ev.guard = "passed"

\* C14 witness: the call was suppressed with the snapshot within its window.
C14_Witness ==
    OneScheduledWithinWindow /\ ev.guard = "wait" /\ ev.ncalls = 0

\* scheduled() is called when the most recent S-tagged snapshot is at least
\* trigger_interval old (13 hours of 12).
NewestScheduledPastWindow ==
    /\ ev.op = "scheduled"
    /\ ev.cfg.compatible
    /\ ExistingScheduled # {}
    /\ NewestScheduledAge >= ev.cfg.trigger_interval

\* C15: when the newest S-tagged snapshot is at least trigger_interval old, the
\* guard never suppresses scheduled(); the placeholder not being reported (and no
\* call raising), the call deletes each old snapshot the engine reports whose age
\* exceeds min_keep_secs and creates a new S-tagged snapshot.
C15_PastWindowRuns ==
    NewestScheduledPastWindow =>
        /\ ev.guard = "passed"
        /\ (~PlaceholderReported /\ ~ev.raised) =>
              /\ \A i \in 1 .. Len(ev.reported) :
                     ev.now - ev.reported[i][1] > ev.cfg.min_keep_secs =>
                        /\ ev.reported[i][2] \in ev.deleted
                        /\ ~StillListed(ev.c, ev.reported[i][2])
              /\ ev.created = {ev.now}
              /\ ev.snaps_created
              /\ [t |-> ev.now, trig |-> "S"] \in fs[ev.c]

\* C15 witness: past the window the call deleted the reported old snapshot and
\* created the new one.
C15_Witness ==
    /\ NewestScheduledPastWindow
    /\ ev.guard = "passed"
    /\ ev.reported # <<>>
    /\ {ev.reported[i][2] : i \in 1 .. Len(ev.reported)} = ev.deleted
    /\ ev.created = {ev.now}

\* scheduled() is called on a compatible volume whose directory holds no S-tagged
\* snapshot, and the engine does not report the lone placeholder.
ScheduledWithoutPreexisting ==
    /\ ev.op = "scheduled"
    /\ ev.cfg.compatible
    /\ ExistingScheduled = {}
    /\ ~PlaceholderReported

\* C16: on a compatible volume with no S-tagged snapshot, scheduled() at any now
\* and with any trigger_interval skips the guard, deletes nothing, and (the engine
\* not reporting the lone placeholder, create_from not raising) creates exactly one
\* S-tagged snapshot, named by now, and sets snaps_created.
C16_FirstScheduledCreates ==
    ScheduledWithoutPreexisting =>
        /\ ev.wait_until = <<>>
        /\ ev.guard = "passed"
        /\ ev.candidates = <<Placeholder(ev.now)>>
        /\ ev.deleted = {}
        /\ ~ev.snaps_deleted
        /\ ~ev.raised =>
              /\ ev.created = {ev.now}
              /\ ev.ncalls = 1
              /\ ev.snaps_created
              /\ fs[ev.c] = {x \in ev.pre : x.t # ev.now} \cup {[t |-> ev.now, trig |-> "S"]}

\* C16 witness: the directory held snapshots of other triggers only, and the call
\* created the first S-tagged one.
C16_Witness ==
    /\ ScheduledWithoutPreexisting
    /\ ev.pre # {}
    /\ ev.snaps_created
    /\ Tagged(fs[ev.c], "S") = {[t |-> ev.now, trig |-> "S"]}

----------------------------------------------------------------------------
(* snap_operator.py: on_pacman(), quotas, incompatible volumes. *)

\* The I-tagged snapshots in the directory when the operation began.
ExistingInstalls == Tagged(ev.pre, "I")

\* The snaptime of the most recent I-tagged snapshot in the directory.
NewestInstallTime ==
    CHOOSE t \in {x.t : x \in ExistingInstalls} : \A x \in ExistingInstalls : x.t <= t

\* An I-tagged snapshot exists and the most recent one is younger than preinstall_interval.
RecentInstall ==
    /\ ExistingInstalls # {}
    /\ ev.now - NewestInstallTime < ev.cfg.preinstall_interval

\* C17: on_pacman() (compatible volume, positive keep_preinstall, no call raising)
\* makes no create and no delete exactly when an I-tagged snapshot exists and the
\* time since the most recent one by snaptime is below preinstall_interval, whatever
\* the listing order; in every other case it creates one I-tagged snapshot and
\* leaves at most keep_preinstall I-tagged snapshots.
C17_PacmanSkipsIffRecentInstall ==
    ( /\ ev.op = "on_pacman"
      /\ ev.cfg.compatible
      /\ ev.cfg.keep_preinstall > 0
      /\ ~ev.raised ) =>
        IF RecentInstall
        THEN ev.ncalls = 0 /\ fs[ev.c] = ev.pre
        ELSE /\ ev.created = {ev.now}
             /\ [t |-> ev.now, trig |-> "I"] \in fs[ev.c]
             /\ Cardinality(Tagged(fs[ev.c], "I")) <= ev.cfg.keep_preinstall

\* create() or on_pacman() is called on a compatible volume with a quota of zero or
\* less, and no delete call raises.
QuotaNotPositive ==
    /\ ev.op \in {"create", "on_pacman"}
    /\ ev.cfg.compatible
    /\ OpCount <= 0
    /\ ~ev.raised
    /\ ~ev.caught

\* The outcome C18 describes: nothing created, every snapshot of the trigger deleted.
NothingCreatedAllDeleted ==
    /\ ev.created = {}
    /\ ~ev.snaps_created
    /\ ev.deleted = {x.t : x \in Tagged(ev.pre, OpTrigger)}
    /\ Tagged(fs[ev.c], OpTrigger) = {}
    /\ fs[ev.c] = ev.pre \ Tagged(ev.pre, OpTrigger)

C19_IncompatibleVolumeUntouched ==
    (ev.op \in {"create", "on_pacman", "scheduled"} /\ ~ev.cfg.compatible) =>
        /\ ev.ncalls = 0
        /\ ev.created = {}
        /\ ev.deleted = {}
        /\ fs[ev.c] = ev.pre
        /\ ~ev.snaps_created
        /\ ~ev.snaps_deleted
        /\ ~ev.raised

\* C19 witness: create() with a positive quota on an incompatible volume whose
\* directory holds U-tagged snapshots left everything as it was.
C19_Witness ==
    /\ ev.op = "create"
    /\ ~ev.cfg.compatible
    /\ ev.cfg.keep_user = 1
    /\ Cardinality(Tagged(ev.pre, "U")) = 2
    /\ fs[ev.c] = ev.pre

----------------------------------------------------------------------------
(* batch_deleter.py: the time scope filter. *)

\* The instants the options stand for, a missing one being the minimum or maximum.
ScopeStart == IF ev.start = "" THEN DatetimeMin ELSE Strptime(ev.start)
ScopeEnd == IF ev.end = "" THEN DatetimeMax ELSE Strptime(ev.end)

\* The snapshot was accepted by every filter built.
SelectedByAll == \A i \in 1 .. Len(ev.accepted) : ev.accepted[i]

\* C20: TimeScopeFilter accepts a snapshot exactly when start <= snaptime < end, a
\* missing bound standing for the minimum or maximum instant, and is disabled only
\* when both bounds are missing; the filters get_filters builds from the options
\* start and end select exactly the snapshots of [start, end).
C20_TimeScopeHalfOpen ==
    ev.op = "call_filters" =>
        /\ ev.built = "direct" =>
               IF ev.start = "" /\ ev.end = ""
               THEN ~SelectedByAll
               ELSE SelectedByAll <=> (ScopeStart <= ev.snap.t /\ ev.snap.t < ScopeEnd)
        /\ (ev.built = "get_filters" /\ ev.start # "" /\ ev.end # "") =>
               (SelectedByAll <=> (ScopeStart <= ev.snap.t /\ ev.snap.t < ScopeEnd))

----------------------------------------------------------------------------
(* batch_deleter.py: options that were not supplied. *)

\* The value of option name in the option dictionary of the event.
OptionValue(name) ==
    LET i == CHOOSE j \in 1 .. Len(ev.args) : ev.args[j].name = name
    IN  ev.args[i].value

\* get_filters was given an indicator and no time bound.
IndicatorOnly ==
    /\ ev.op = "get_filters"
    /\ OptionValue("indicator") # ""
    /\ OptionValue("start") = ""
    /\ OptionValue("end") = ""

\* C21: a filter whose option was not supplied takes no part in the composition:
\* with the options indicator = I, start = "", end = "" the selection of every
\* configuration is the selection by the indicator alone, its snapshots of trigger
\* I in order of snaptime, so the absent time filter never empties it.
C21_AbsentFilterNotComposed ==
    IndicatorOnly =>
        \A config \in DOMAIN ev.mapping :
            ev.result[config] =
                SortedBySnaptime({x \in Range(ev.mapping[config]) :
                                    x.trig = Upper(OptionValue("indicator"))})

----------------------------------------------------------------------------
(* main.py: _delete_snap; snap_operator.py: find_target. *)

\* Snapshots in all destination directories together before a delete command.
MaxDeleteSnaps == 1

\* global_flags.TIME_FORMAT_LEN, the width of a timestamp (two digits here).
TIME_FORMAT_LEN == 2

Digits == <<"0", "1", "2", "3", "4", "5", "6", "7", "8", "9">>

\* snaptime.strftime(TIME_FORMAT): the fixed-width text of an instant.
Strftime(t) == <<Digits[(t \div 10) + 1], Digits[(t % 10) + 1]>>

\* config.dest_prefix, as a string of characters.
DestPrefix(c) == IF c = 1 THEN <<"/", "a">> ELSE <<"/", "b">>

\* snap.target: dest_prefix followed by the timestamp.
Target(c, snap) == DestPrefix(c) \o Strftime(snap.t)

\* str.endswith
EndsWith(str, suffix) ==
    /\ Len(suffix) <= Len(str)
    /\ SubSeq(str, Len(str) - Len(suffix) + 1, Len(str)) = suffix

\* The target suffixes given on the command line: every ending of a snapshot path,
\* the empty one and the ones shorter than a timestamp included.
TargetSuffixes ==
    {SubSeq(Target(c, [t |-> t]), n, Len(Target(c, [t |-> t]))) :
        c \in Configs, t \in Times, n \in 1 .. Len(DestPrefix(1)) + TIME_FORMAT_LEN + 1}

\* Mutant of FindTarget: the length of the suffix not checked.
FindTargetAnyLength(c, listing, suffix) ==
    LET hits == SelectSeq(GetOldBackups(listing),
                          LAMBDA x : EndsWith(Target(c, x), suffix))
    IN  [raised |-> FALSE, scanned |-> TRUE,
         snap |-> IF hits = <<>> THEN <<>> ELSE <<hits[1]>>]

\* find_target: ValueError for a short suffix, else the first snapshot listed whose
\* target ends with the suffix, <<>> for None.
FindTarget(c, listing, suffix) ==
    IF Len(suffix) < TIME_FORMAT_LEN
    THEN [raised |-> TRUE, scanned |-> FALSE, snap |-> <<>>]
    ELSE LET hits == SelectSeq(GetOldBackups(listing),
                               LAMBDA x : EndsWith(Target(c, x), suffix))
         IN  [raised |-> FALSE, scanned |-> TRUE,
              snap |-> IF hits = <<>> THEN <<>> ELSE <<hits[1]>>]

\* The state of _delete_snap before its loop.
NewDeleteRun(path_suffix, conf, sync, failAt) ==
    [status |-> "running", command |-> "delete", pre |-> fs, snaps |-> fs,
     path_suffix |-> path_suffix, conf |-> conf, sync |-> sync, failAt |-> failAt,
     ncalls |-> 0, raised |-> "", scanned |-> {}, deleted |-> {}, to_sync |-> <<>>,
     hooks |-> <<>>, synced |-> <<>>, not_found |-> FALSE]

\* The loop of _delete_snap over the configurations todo; an exception leaves it.
RECURSIVE DeleteSnapLoop(_, _, _)
DeleteSnapLoop(todo, mapping, st) ==
    IF todo = <<>>
    THEN st
    ELSE LET config == Head(todo)
             found == FindTarget(config, mapping[config], st.path_suffix)
             looked == IF found.scanned
                       THEN [st EXCEPT !.scanned = @ \cup {config}]
                       ELSE st
         IN  IF found.raised
             THEN [looked EXCEPT !.raised = "ValueError"]
             ELSE IF found.snap = <<>>
             THEN DeleteSnapLoop(Tail(todo), mapping,
                                 [looked EXCEPT !.hooks = Append(@, config)])
             ELSE IF looked.ncalls + 1 = looked.failAt
             THEN [looked EXCEPT !.ncalls = @ + 1, !.raised = "PermissionError"]
             ELSE DeleteSnapLoop(Tail(todo), mapping,
                    [looked EXCEPT
                       !.ncalls = @ + 1,
                       !.snaps[config] = @ \ {found.snap[1]},
                       !.deleted = @ \cup {[c |-> config, snap |-> found.snap[1]]},
                       !.to_sync = IF looked.conf[config].snap_type = "BTRFS"
                                   THEN Append(@, [c |-> config,
                                                   snap_type |-> looked.conf[config].snap_type,
                                                   mount_path |-> looked.conf[config].mount_path])
                                   ELSE @,
                       !.hooks = Append(@, config)])

\* _delete_snap: the loop, the sync and the report.
DeleteSnap(path_suffix, mapping, conf, sync, failAt) ==
    LET st == DeleteSnapLoop(IterateConfigs, mapping,
                             NewDeleteRun(path_suffix, conf, sync, failAt))
    IN  IF st.raised # ""
        THEN [st EXCEPT !.status = "crashed"]
        ELSE [st EXCEPT !.status = "done",
                        !.synced = IF sync THEN Sync(st.to_sync) ELSE <<>>,
                        !.not_found = (st.to_sync = <<>>)]

\* The volumes of the configurations; the delete command reads the backend type
\* and hands the mount path on to _sync.
DeleteVolumes == {conf \in [Configs -> Volumes] : \A c \in Configs : conf[c].mount_path = "/"}

\* command == "delete"
DoDeleteSnap ==
    /\ run.status = "idle"
    /\ budget > 0
    /\ \E path_suffix \in TargetSuffixes, mapping \in ConfigSnapshotsMappings(fs),
          conf \in DeleteVolumes, sync \in BOOLEAN, failAt \in 0 .. MaxFail :
          LET r == DeleteSnap(path_suffix, mapping, conf, sync, failAt)
          IN  /\ run' = [k \in DOMAIN r \ {"snaps"} |-> r[k]]
              /\ fs' = r.snaps
    /\ budget' = budget - 1
    /\ UNCHANGED <<clock, ev>>

\* The delete command never reads the trigger of a snapshot: user snapshots only.
InitDelete ==
    /\ fs \in {f \in AllSnapSets(MaxDeleteSnaps) :
                 \A c \in Configs : \A x \in f[c] : x.trig = "U"}
    /\ clock = 0
    /\ budget = 1
    /\ ev = NoEvent
    /\ run = IdleRun

NextDelete == DoDeleteSnap

SpecDelete == InitDelete /\ [][NextDelete]_vars

\* The delete command has returned.
DeleteDone == run.status = "done" /\ run.command = "delete"

\* The snapshots of configuration c, before the command, whose path ends with the suffix.
Matching(c) == {x \in run.pre[c] : EndsWith(Target(c, x), run.path_suffix)}

\* C22: the delete command reports the target as not found exactly when no
\* configuration contained a snapshot matching the suffix, and then nothing is
\* deleted; when a configuration of any backend type contains a match, that
\* snapshot is deleted and no not-found report is made.
C22_NotFoundIffNoMatch ==
    DeleteDone =>
        /\ run.not_found <=> (\A c \in Configs : Matching(c) = {})
        /\ run.not_found => fs = run.pre
        /\ \A c \in Configs : fs[c] = run.pre[c] \ Matching(c)

\* The delete command was given a suffix shorter than a timestamp.
ShortSuffix ==
    /\ run.status # "idle"
    /\ run.command = "delete"
    /\ Len(run.path_suffix) < TIME_FORMAT_LEN

\* C23: for a target suffix shorter than the fixed-width timestamp find_target
\* raises before it scans any directory, and the delete command ends with no
\* snapshot deleted, no post-hook called and no sync issued in any configuration.
C23_ShortSuffixAborts ==
    ShortSuffix =>
        /\ run.raised = "ValueError"
        /\ run.status = "crashed"
        /\ run.scanned = {}
        /\ run.ncalls = 0
        /\ run.deleted = {}
        /\ fs = run.pre
        /\ run.hooks = <<>>
        /\ run.synced = <<>>

\* C23 witness: the short suffix is the ending of the path of an existing snapshot,
\* sync was asked for, and the command ended on the ValueError.
C23_Witness ==
    /\ ShortSuffix
    /\ run.path_suffix # <<>>
    /\ \E c \in Configs : Matching(c) # {} /\ run.conf[c].snap_type = "BTRFS"
    /\ run.sync
    /\ run.raised = "ValueError"

----------------------------------------------------------------------------
(* snap_operator.py, main.py: the two flags and what the run does with them. *)

\* An operation of a command run has just ended for configuration ev.c.
OperationEnded == ev.op \in {"create", "on_pacman", "scheduled"}

\* Configuration c is in the list handed to _sync.
ListedForSync(c) == \E i \in 1 .. Len(run.to_sync) : run.to_sync[i].c = c

\* A delete call returned for configuration c, whose backend is BTRFS.
DeletedOnBtrfs(c) == \E d \in run.deleted_in : d.c = c /\ d.snap_type = "BTRFS"

\* C24: the flags of one SnapOperator instance are false unless a create_from
\* (delete) call of that instance has returned, true once one has, and stay so to
\* the end of the operation; when the operation has returned, the run calls the
\* post-hooks of the configuration exactly when one of the flags is true and lists
\* it for sync exactly when snaps_deleted is true and its backend is BTRFS.
C24_FlagsFollowCalls ==
    OperationEnded =>
        /\ ev.snaps_created <=> ev.created # {}
        /\ ev.snaps_deleted <=> ev.deleted # {}
        /\ ~ev.raised =>
              /\ ev.c \in run.hooks <=> (ev.snaps_created \/ ev.snaps_deleted)
              /\ ListedForSync(ev.c) <=> (ev.snaps_deleted /\ DeletedOnBtrfs(ev.c))

\* C24 witness: scheduled() deleted on a backend other than BTRFS and created
\* nothing; the post-hooks were called and the configuration is not listed for sync.
C24_Witness ==
    /\ ev.op = "scheduled"
    /\ ev.snaps_deleted
    /\ ~ev.snaps_created
    /\ ~ev.raised
    /\ ev.c \in run.hooks
    /\ ~ListedForSync(ev.c)

----------------------------------------------------------------------------
(* main.py: --dry-run.  An operation is run under FLAGS.dryrun, and what a   *)
(* normal run decides from the same directory content and now is recorded   *)
(* beside it.                                                                *)

\* The record of a dry-run (dry) and of the normal run from the same start (normal).
DryrunEvent(dry, normal) ==
    [op |-> "dryrun", c |-> dry.c, pre |-> fs[dry.c], dry |-> EventOf(dry),
     normal |-> EventOf(normal), normal_snaps |-> normal.snaps]

DryrunInvoked(c, now, dry, normal) ==
    /\ fs' = [fs EXCEPT ![c] = dry.snaps]
    /\ ev' = DryrunEvent(dry, normal)
    /\ clock' = now
    /\ budget' = budget - 1
    /\ UNCHANGED run

DryrunScheduled ==
    /\ run.status = "idle"
    /\ budget > 0
    /\ \E cfg \in SchedConfigs, now \in clock .. MaxTime, failAt \in 0 .. MaxFail :
       \E listing \in ListDir(fs[OpConfig]) :
       \E reported \in ScheduledReports(OpConfig, cfg, now, listing) :
          DryrunInvoked(OpConfig, now,
                        ScheduledOf(OpConfig, cfg, now, listing, reported,
                                    NewDryrunOperator(fs[OpConfig])),
                        Scheduled(OpConfig, cfg, now, listing, reported, failAt))

DryrunCreate ==
    /\ run.status = "idle"
    /\ budget > 0
    /\ \E cfg \in CreateConfigs, now \in clock .. MaxTime, failAt \in 0 .. MaxFail :
       \E listing \in ListDir(fs[OpConfig]) :
          DryrunInvoked(OpConfig, now,
                        CreateOf(OpConfig, cfg, now, listing, NewDryrunOperator(fs[OpConfig])),
                        Create(OpConfig, cfg, now, listing, failAt))

DryrunOnPacman ==
    /\ run.status = "idle"
    /\ budget > 0
    /\ \E cfg \in PacmanConfigs, now \in clock .. MaxTime, failAt \in 0 .. MaxFail :
       \E listing \in ListDir(fs[OpConfig]) :
          DryrunInvoked(OpConfig, now,
                        OnPacmanOf(OpConfig, cfg, now, listing, NewDryrunOperator(fs[OpConfig])),
                        OnPacman(OpConfig, cfg, now, listing, failAt))

NextDryrun == DryrunScheduled \/ DryrunCreate \/ DryrunOnPacman

SpecDryrun == Init /\ [][NextDryrun]_vars

\* C25: started from the same snapshot set and now, a dry-run and a normal run (in
\* which no mechanism call fails) of create(), on_pacman() or scheduled() take the
\* same decisions, the same snapshots deleted and the same snapshot created, and end
\* with the same snaps_created and snaps_deleted, while the dry-run leaves the
\* snapshot set as it was.
C25_DryrunSameDecisions ==
    ev.op = "dryrun" =>
        /\ fs[ev.c] = ev.pre
        /\ (~ev.normal.raised /\ ~ev.normal.caught) =>
              /\ ev.dry.guard = ev.normal.guard
              /\ ev.dry.deleted = ev.normal.deleted
              /\ ev.dry.created = ev.normal.created
              /\ ev.dry.ncalls = ev.normal.ncalls
              /\ ev.dry.snaps_created = ev.normal.snaps_created
              /\ ev.dry.snaps_deleted = ev.normal.snaps_deleted
              /\ ~ev.dry.raised

\* C25 witness: the normal run deleted and created and so changed the directory,
\* the dry-run set both flags and left it alone.
C25_Witness ==
    /\ ev.op = "dryrun"
    /\ ev.dry.snaps_created
    /\ ev.dry.snaps_deleted
    /\ ~ev.normal.raised
    /\ ev.normal_snaps # ev.pre
    /\ fs[ev.c] = ev.pre

----------------------------------------------------------------------------
(* snap_operator.py: _get_old_backups among foreign directory entries.  An  *)
(* operation is run on a directory that holds an entry that is no snapshot, *)
(* and what it does on the directory without that entry is recorded beside. *)

\* Snapshots in the destination directory beside the foreign entry.
MaxForeignSnaps == 1

\* The name of a foreign entry is no timestamp; the trigger is the one its metadata
\* would give if it were read.
ForeignEntries ==
    [t : {-1}, trig : Triggers, entry : {"file", "prefix", "unparsable"}]

SnapshotEntries(entries) == {x \in entries : IsSnapshotEntry(x)}

\* list_snaps, list_snaps_json: the entries printed.
ListSnaps(listing) == GetOldBackups(listing)

ForeignEvent(with, without) ==
    [op |-> "foreign", c |-> with.c, pre |-> fs[with.c], with |-> EventOf(with),
     without |-> EventOf(without), without_snaps |-> without.snaps]

ForeignInvoked(c, now, with, without) ==
    /\ fs' = [fs EXCEPT ![c] = with.snaps]
    /\ ev' = ForeignEvent(with, without)
    /\ clock' = now
    /\ budget' = budget - 1
    /\ UNCHANGED run

ForeignScheduled ==
    /\ run.status = "idle"
    /\ budget > 0
    /\ \E cfg \in {k \in SchedConfigs : k.compatible}, now \in clock .. MaxTime :
       \E listing \in ListDir(fs[OpConfig]) :
       \E reported \in ScheduledReports(OpConfig, cfg, now, listing) :
          ForeignInvoked(OpConfig, now,
                         Scheduled(OpConfig, cfg, now, listing, reported, 0),
                         ScheduledOf(OpConfig, cfg, now, SelectSeq(listing, IsSnapshotEntry),
                                     reported,
                                     NewOperator(SnapshotEntries(fs[OpConfig]), 0)))

ForeignCreate ==
    /\ run.status = "idle"
    /\ budget > 0
    /\ \E cfg \in {k \in CreateConfigs : k.compatible}, now \in clock .. MaxTime :
       \E listing \in ListDir(fs[OpConfig]) :
          ForeignInvoked(OpConfig, now,
                         Create(OpConfig, cfg, now, listing, 0),
                         CreateOf(OpConfig, cfg, now, SelectSeq(listing, IsSnapshotEntry),
                                  NewOperator(SnapshotEntries(fs[OpConfig]), 0)))

ForeignOnPacman ==
    /\ run.status = "idle"
    /\ budget > 0
    /\ \E cfg \in {k \in PacmanConfigs : k.compatible}, now \in clock .. MaxTime :
       \E listing \in ListDir(fs[OpConfig]) :
          ForeignInvoked(OpConfig, now,
                         OnPacman(OpConfig, cfg, now, listing, 0),
                         OnPacmanOf(OpConfig, cfg, now, SelectSeq(listing, IsSnapshotEntry),
                                    NewOperator(SnapshotEntries(fs[OpConfig]), 0)))

ForeignListSnaps ==
    /\ run.status = "idle"
    /\ budget > 0
    /\ \E listing \in ListDir(fs[OpConfig]) :
          ev' = [op |-> "list", c |-> OpConfig, pre |-> fs[OpConfig],
                 listed |-> ListSnaps(listing)]
    /\ budget' = budget - 1
    /\ UNCHANGED <<fs, clock, run>>

InitForeign ==
    /\ fs \in {f \in [Configs -> {s \cup {x} : s \in SnapSets(MaxForeignSnaps),
                                                x \in ForeignEntries}] :
                 \A c \in Configs \ {OpConfig} : f[c] = f[OpConfig]}
    /\ clock = 0
    /\ budget = 1
    /\ ev = NoEvent
    /\ run = IdleRun

NextForeign == ForeignScheduled \/ ForeignCreate \/ ForeignOnPacman \/ ForeignListSnaps

SpecForeign == InitForeign /\ [][NextForeign]_vars

\* The foreign entries of the directory when the operation began.
ForeignBefore == ev.pre \ SnapshotEntries(ev.pre)

\* C26: an entry of the destination directory that is not a directory, does not
\* start with dest_prefix or does not parse as a timestamp is no part of the
\* snapshot set: create(), on_pacman() and scheduled() do on the directory what they
\* do without the entry (same guard, last snapshot, candidates, deletions, creation,
\* flags, no failure), the listing shows the snapshots only, and the entry is left
\* in place.
C26_ForeignEntriesIgnored ==
    /\ ev.op = "foreign" =>
          /\ ev.with.guard = ev.without.guard
          /\ ev.with.wait_until = ev.without.wait_until
          /\ ev.with.candidates = ev.without.candidates
          /\ ev.with.deleted = ev.without.deleted
          /\ ev.with.created = ev.without.created
          /\ ev.with.ncalls = ev.without.ncalls
          /\ ev.with.snaps_created = ev.without.snaps_created
          /\ ev.with.snaps_deleted = ev.without.snaps_deleted
          /\ ~ev.with.raised /\ ~ev.with.caught
          /\ fs[ev.c] = ev.without_snaps \cup ForeignBefore
    /\ ev.op = "list" =>
          /\ Range(ev.listed) = SnapshotEntries(ev.pre)
          /\ Len(ev.listed) = Cardinality(SnapshotEntries(ev.pre))

\* C26 witness: on_pacman() with a quota of one created a snapshot and deleted the
\* one before it, beside an unparsable entry with the same trigger listed last.
C26_Witness ==
    /\ ev.op = "foreign"
    /\ ev.with.op = "on_pacman"
    /\ ev.with.cfg.keep_preinstall = 1
    /\ ev.with.snaps_created
    /\ ev.with.snaps_deleted
    /\ \E x \in ForeignBefore : x.entry = "unparsable" /\ x.trig = "I" /\ x \in fs[ev.c]

----------------------------------------------------------------------------
(* deletion_logic.DeleteManager.get_deletes, the retention engine.  A rule  *)
(* set is a list of tiers, each a horizon and a minimum spacing; a candidate *)
(* belongs to the first tier whose horizon reaches its age.                  *)

MaxEngineSnaps == 3
MaxTiers == 2
MaxSpacing == 3

\* The rule sets: tiers ordered by non-decreasing horizon.
RuleSets ==
    {r \in UNION {[1 .. n -> [horizon : 1 .. MaxTime, spacing : 1 .. MaxSpacing]] :
                      n \in 1 .. MaxTiers} :
        \A i, j \in 1 .. Len(r) : i < j => r[i].horizon <= r[j].horizon}

\* The tier of a candidate taken at `when`; 0 when it is older than every horizon.
TierOf(rules, now, when) ==
    LET reach == {i \in 1 .. Len(rules) : now - when <= rules[i].horizon}
    IN  IF reach = {} THEN 0 ELSE CHOOSE i \in reach : \A j \in reach : i <= j

\* The walk of tier k from position i down to the oldest candidate: the first
\* candidate met outside the window of the one kept last is kept and opens a window
\* of the tier's spacing, every other one is marked.  kept is the position of the
\* candidate kept last (0: none yet), deletes the positions marked.
RECURSIVE TierWalk(_, _, _, _, _, _, _)
TierWalk(rules, now, candidates, k, i, kept, deletes) ==
    IF i = 0
    THEN deletes
    ELSE IF TierOf(rules, now, candidates[i][1]) # k
         THEN TierWalk(rules, now, candidates, k, i - 1, kept, deletes)
         ELSE IF kept # 0 /\ candidates[kept][1] - candidates[i][1] < rules[k].spacing
              THEN TierWalk(rules, now, candidates, k, i - 1, kept, deletes \cup {i})
              ELSE TierWalk(rules, now, candidates, k, i - 1, i, deletes)

\* The positions marked for deletion by all tiers.
MarkedPositions(rules, now, candidates) ==
    UNION {TierWalk(rules, now, candidates, k, Len(candidates), 0, {}) :
              k \in 1 .. Len(rules)}

RECURSIVE SelectPositions(_, _, _)
SelectPositions(seq, i, positions) ==
    IF i > Len(seq)
    THEN <<>>
    ELSE (IF i \in positions THEN <<seq[i]>> ELSE <<>>)
         \o SelectPositions(seq, i + 1, positions)

\* get_deletes(now, candidates): the marked candidates in input order.
GetDeletes(rules, now, candidates) ==
    SelectPositions(candidates, 1, MarkedPositions(rules, now, candidates))

\* _apply_deletion_rules asks the engine about the scheduled snapshots of the
\* directory, in chronological order, and the placeholder.
DoGetDeletes ==
    /\ run.status = "idle"
    /\ budget > 0
    /\ \E rules \in RuleSets :
       \E now \in {n \in Times : \A x \in fs[OpConfig] : x.t <= n} :
          LET candidates == Candidates(SortedBySnaptime(fs[OpConfig]), now)
          IN  ev' = [op |-> "get_deletes", c |-> OpConfig, rules |-> rules, now |-> now,
                     candidates |-> candidates,
                     reported |-> GetDeletes(rules, now, candidates)]
    /\ budget' = budget - 1
    /\ UNCHANGED <<fs, clock, run>>

InitEngine ==
    /\ fs \in {f \in [Configs -> SnapSets(MaxEngineSnaps)] :
                 /\ \A c \in Configs \ {OpConfig} : f[c] = {}
                 /\ \A x \in f[OpConfig] : x.trig = "S"}
    /\ clock = 0
    /\ budget = 1
    /\ ev = NoEvent
    /\ run = IdleRun

NextEngine == DoGetDeletes

SpecEngine == InitEngine /\ [][NextEngine]_vars

\* The positions of the candidates the engine did not report, and of those it did.
RetainedPositions ==
    {i \in 1 .. Len(ev.candidates) : ev.candidates[i] \notin Range(ev.reported)}

ReportedPositions == (1 .. Len(ev.candidates)) \ RetainedPositions

CandidateTier(i) == TierOf(ev.rules, ev.now, ev.candidates[i][1])

----------------------------------------------------------------------------
(* The operations on a directory that holds snapshots of every trigger,     *)
(* those without a trigger (taken before triggers were recorded) included.  *)

MaxTriggerSnaps == 2

LegacyTrigger == ""

TriggerSnapSets ==
    {{[t |-> u, trig |-> f[u]] : u \in {v \in Times : f[v] # NoSnap}} :
        f \in {g \in [Times -> Triggers \cup {LegacyTrigger, NoSnap}] :
                  Cardinality({v \in Times : g[v] # NoSnap}) <= MaxTriggerSnaps}}

TriggerScheduled ==
    /\ run.status = "idle"
    /\ budget > 0
    /\ \E cfg \in {k \in SchedConfigs : k.compatible}, now \in clock .. MaxTime :
       \E listing \in ListDir(fs[OpConfig]) :
       \E reported \in ScheduledReports(OpConfig, cfg, now, listing) :
          Invoked(OpConfig, now, Scheduled(OpConfig, cfg, now, listing, reported, 0))

TriggerCreate ==
    /\ run.status = "idle"
    /\ budget > 0
    /\ \E cfg \in {k \in CreateConfigs : k.compatible}, now \in clock .. MaxTime :
       \E listing \in ListDir(fs[OpConfig]) :
          Invoked(OpConfig, now, Create(OpConfig, cfg, now, listing, 0))

TriggerOnPacman ==
    /\ run.status = "idle"
    /\ budget > 0
    /\ \E cfg \in {k \in PacmanConfigs : k.compatible}, now \in clock .. MaxTime :
       \E listing \in ListDir(fs[OpConfig]) :
          Invoked(OpConfig, now, OnPacman(OpConfig, cfg, now, listing, 0))

InitTrigger ==
    /\ fs \in {f \in [Configs -> TriggerSnapSets] :
                 \A c \in Configs \ {OpConfig} : f[c] = {}}
    /\ clock = 0
    /\ budget = 1
    /\ ev = NoEvent
    /\ run = IdleRun

NextTrigger == TriggerScheduled \/ TriggerCreate \/ TriggerOnPacman

SpecTrigger == InitTrigger /\ [][NextTrigger]_vars

\* The trigger an operation tags its snapshots with.
OwnTrigger ==
    IF ev.op = "create" THEN "U" ELSE IF ev.op = "on_pacman" THEN "I" ELSE "S"

\* C28: create() deletes only U-tagged snapshots, on_pacman() only I-tagged ones and
\* scheduled() only S-tagged ones, and a snapshot with another trigger or with the
\* empty trigger is in the directory afterwards as it was before (the path at which
\* the operation itself creates its snapshot apart).
C28_DeletesOwnTriggerOnly ==
    ev.op \in {"create", "on_pacman", "scheduled"} =>
        /\ \A t \in ev.deleted : \E x \in ev.pre : x.t = t /\ x.trig = OwnTrigger
        /\ \A x \in ev.pre :
              (x.trig # OwnTrigger /\ x.t \notin ev.created) => x \in fs[ev.c]

\* C28 witness: create() deleted a U-tagged snapshot beside one without a trigger.
C28_Witness ==
    /\ ev.op = "create"
    /\ ev.deleted # {}
    /\ \E x \in ev.pre : x.trig = LegacyTrigger /\ x \in fs[ev.c]

----------------------------------------------------------------------------
(* Batch deletion without an active filter.                                 *)

\* The selection a batch deletion works on: the snapshots listed for each
\* configuration by apply_snapshot_filters.
BatchSelection(result) == [c \in DOMAIN result |-> Range(result[c])]

\* No filter was passed, or none of the filters passed is enabled.
NoActiveFilter == \A i \in 1 .. Len(ev.filters) : ~ev.filters[i].available

\* C29: apply_snapshot_filters called with no filter at all (or with disabled
\* filters only) returns a mapping with every configuration as key and an empty
\* list for each, so a batch deletion working on it makes no delete call.
C29_NoFilterSelectsNothing ==
    (ev.op \in {"apply_snapshot_filters", "get_filters"} /\ NoActiveFilter) =>
        /\ DOMAIN ev.result = DOMAIN ev.mapping
        /\ \A c \in DOMAIN ev.result : ev.result[c] = <<>>
        /\ BatchDeleteCalls(TRUE, BatchSelection(ev.result)) = <<>>

\* C29 witness: apply_snapshot_filters was called with no filter on a mapping that
\* holds a snapshot.
C29_Witness ==
    /\ ev.op = "apply_snapshot_filters"
    /\ ev.filters = <<>>
    /\ \E c \in DOMAIN ev.mapping : ev.mapping[c] # <<>>
    /\ \A c \in DOMAIN ev.mapping : c \in DOMAIN ev.result /\ ev.result[c] = <<>>

====
